---- MODULE Spec2Model ----
(***************************************************************************)
(* A model of src/components/DesignManager.tsx: the editing session of the *)
(* design settings form, its two stored documents (design_settings and     *)
(* general_settings), the hero image upload and the custom style override. *)
(*                                                                         *)
(* JavaScript values are modelled as tagged records: a string is a         *)
(* sequence of chunks, each chunk either a whitespace character or a run   *)
(* of non-whitespace text; undefined is a value of its own.  An object is  *)
(* a function from the set of its own keys to values.                      *)
(***************************************************************************)
EXTENDS Integers, Sequences, FiniteSets, TLC

VARIABLES
    designSettings,  \* useState<DesignSettings>, line 31
    isLoading,       \* useState(false), line 32
    uploading,       \* useState(false), line 33
    store,           \* table server_settings: setting_key -> setting_value
    head,            \* document.head: the sequence of its style elements
    loadPc,          \* position of fetchDesignSettings
    savePc,          \* position of saveDesignSettings
    saveS,           \* the designSettings the running save closed over
    issued,          \* the upserts issued by the current or the last save
    upPc,            \* position of handleImageUpload
    upPath,          \* filePath of the upload in flight
    blobCalls,       \* invocations of the blob store: upload, getPublicUrl
    toasts,          \* notifications of the latest load, save, upload, reset
    steps,           \* number of user actions taken so far
    last             \* the latest user action and its input

vars == <<designSettings, isLoading, uploading, store, head, loadPc, savePc,
          saveS, issued, upPc, upPath, blobCalls, toasts, steps, last>>

----------------------------------------------------------------------------
(* Bounds of the model *)

\* user actions (mount, edit, reset, save, file selection) per behaviour
MaxSteps == 3
\* values Date.now() may return when a file name is built
MaxTime == 1

----------------------------------------------------------------------------
(* Values and objects *)

Undefined == [t |-> "undefined"]
Str(chunks) == [t |-> "string", s |-> chunks]
EmptyStr == Str(<<>>)

\* JavaScript truthiness of a string-or-undefined value
Truthy(v) == v.t = "string" /\ v.s # <<>>

EmptyObj == [k \in {} |-> Undefined]
\* property read: undefined for a key the object does not own
Get(o, k) == IF k \in DOMAIN o THEN o[k] ELSE Undefined
\* { ...o, [k]: v }
With(o, k, v) == [x \in DOMAIN o \cup {k} |-> IF x = k THEN v ELSE o[x]]
\* delete o[k]
Delete(o, k) == [x \in DOMAIN o \ {k} |-> o[x]]
\* Object.assign(a, b)
Assign(a, b) == [x \in DOMAIN a \cup DOMAIN b |-> IF x \in DOMAIN b THEN b[x] ELSE a[x]]
\* what a JSON body keeps of an object: members whose value is undefined are left out
Serialize(o) == [x \in {k \in DOMAIN o : o[k] # Undefined} |-> o[x]]

WhiteSpace == {" ", "\n"}

RECURSIVE TrimStart(_)
TrimStart(s) == IF s # <<>> /\ Head(s) \in WhiteSpace THEN TrimStart(Tail(s)) ELSE s

RECURSIVE TrimEnd(_)
TrimEnd(s) ==
    IF s # <<>> /\ s[Len(s)] \in WhiteSpace
    THEN TrimEnd(SubSeq(s, 1, Len(s) - 1))
    ELSE s

\* String.prototype.trim on the chunks of a string
Trim(s) == TrimEnd(TrimStart(s))

\* String.prototype.startsWith
StartsWith(s, p) == Len(s) >= Len(p) /\ SubSeq(s, 1, Len(p)) = p

----------------------------------------------------------------------------
(* Names the program fixes *)

HERO == "hero_image_url"
PRIMARY == "primary_color"
SN == "server_name"
WM == "welcome_message"
CSS == "custom_css"

\* interface DesignSettings
Fields ==
    {HERO, PRIMARY, "secondary_color", "accent_color", "background_color",
     "text_color", "font_primary", "font_secondary", "border_radius",
     "shadow_intensity", "animation_speed", SN, WM, CSS}

DESIGN == "design_settings"
GENERAL == "general_settings"
SettingKeys == {DESIGN, GENERAL}

StyleId == "custom-design-css"

MaxFileSize == 5 * 1024 * 1024

\* the object resetToDefaults installs
Defaults ==
    [k \in Fields \ {HERO} |->
        CASE k = PRIMARY -> Str(<<"#339999">>)
          [] k = "secondary_color" -> Str(<<"#f0e68c">>)
          [] k = "accent_color" -> Str(<<"#00ccff">>)
          [] k = "background_color" -> Str(<<"#1a1a1a">>)
          [] k = "text_color" -> Str(<<"#f5f5dc">>)
          [] k = "font_primary" -> Str(<<"Orbitron">>)
          [] k = "font_secondary" -> Str(<<"Inter">>)
          [] k = "border_radius" -> Str(<<"0.5rem">>)
          [] k = "shadow_intensity" -> Str(<<"medium">>)
          [] k = "animation_speed" -> Str(<<"normal">>)
          [] k = SN -> Str(<<"DREAMLIGHT", " ", "RP">>)
          [] k = WM -> Str(<<"Experience", " ", "the", " ", "ultimate">>)
          [] k = CSS -> EmptyStr]

----------------------------------------------------------------------------
(* Inputs the model draws from *)

\* texts the user types into an input; every input has the same handler
EditValues(k) ==
    CASE k = CSS -> {EmptyStr, Str(<<" ">>), Str(<<"body{color:red}">>)}
      [] k = SN -> {EmptyStr, Str(<<"Foo">>)}
      [] k = WM -> {EmptyStr, Str(<<"Hi">>)}
      [] OTHER -> {Str(<<"#123456">>)}

EditedFields == {PRIMARY, SN, WM, CSS}

\* contents of the table before the session starts
PlainDesign == [k \in {PRIMARY} |-> Str(<<"#123456">>)]

\* a design document that carries one of the two general keys itself
MixedDesign ==
    [k \in {CSS, SN} |-> IF k = SN THEN Str(<<"Bar">>) ELSE Str(<<"p{}">>)]

FullGeneral ==
    [k \in {SN, WM, "extra_field"} |->
        CASE k = SN -> Str(<<"Foo">>)
          [] k = WM -> Str(<<"Hi">>)
          [] OTHER -> Str(<<"ignored">>)]

PartGeneral == [k \in {WM} |-> Str(<<"Old">>)]

InitStores ==
    { EmptyObj,
      [k \in {DESIGN} |-> PlainDesign],
      [k \in {GENERAL} |-> FullGeneral],
      [k \in SettingKeys |-> IF k = DESIGN THEN PlainDesign ELSE FullGeneral],
      [k \in SettingKeys |-> IF k = DESIGN THEN PlainDesign ELSE PartGeneral],
      [k \in SettingKeys |-> IF k = DESIGN THEN MixedDesign ELSE FullGeneral] }

\* files the user may select: name split at its dots, content type, size
Files ==
    { [name |-> <<"hero", "png">>, type |-> <<"image/", "png">>, size |-> MaxFileSize],
      [name |-> <<"big", "jpg">>, type |-> <<"image/", "jpeg">>, size |-> MaxFileSize + 1],
      [name |-> <<"notes", "txt">>, type |-> <<"text/", "plain">>, size |-> 10],
      [name |-> <<"film">>, type |-> <<"video/", "mp4">>, size |-> 6 * 1024 * 1024] }

Times == 1..MaxTime

----------------------------------------------------------------------------
(* fetchDesignSettings *)

\* a merge that copies the server name alone from the general document
MergeRowDropsWelcome(settings, row) ==
    IF row.key = DESIGN
    THEN Assign(settings, row.value)
    ELSE IF row.key = GENERAL
         THEN With(settings, SN, Get(row.value, SN))
         ELSE settings

\* one pass of the forEach body over a returned row
MergeRow(settings, row) ==
    IF row.key = DESIGN
    THEN Assign(settings, row.value)
    ELSE IF row.key = GENERAL
         THEN With(With(settings, SN, Get(row.value, SN)), WM, Get(row.value, WM))
         ELSE settings

RECURSIVE MergeRows(_, _)
MergeRows(settings, data) ==
    IF data = <<>> THEN settings
    ELSE MergeRows(MergeRow(settings, Head(data)), Tail(data))

\* const settings = {}; data.forEach(...)
LoadMerge(data) == MergeRows(EmptyObj, data)

\* the orders in which the store may return the rows it holds
Orders(S) ==
    {q \in [1..Cardinality(S) -> S] : \A a, b \in 1..Cardinality(S) : a # b => q[a] # q[b]}

Rows(st, order) == [i \in DOMAIN order |-> [key |-> order[i], value |-> st[order[i]]]]

----------------------------------------------------------------------------
(* saveDesignSettings *)

\* a split that forgets the second delete
DesignDataKeepsWelcome(s) == Delete(s, SN)

\* const designData = { ...designSettings }; delete ...; delete ...
DesignData(s) == Delete(Delete(s, SN), WM)

\* a condition that looks at the server name alone
NeedsGeneralNameOnly(s) == Truthy(Get(s, SN))

\* if (designSettings.server_name || designSettings.welcome_message)
NeedsGeneral(s) == Truthy(Get(s, SN)) \/ Truthy(Get(s, WM))

\* the setting_value of the general_settings upsert
GeneralData(s) == [k \in {SN, WM} |-> Get(s, k)]

\* the row an upsert leaves in the table
Upsert(st, key, value) == With(st, key, Serialize(value))

----------------------------------------------------------------------------
(* updateCustomCSS *)

\* indexes of the elements document.getElementById('custom-design-css') may find
Overrides(h) == {i \in DOMAIN h : h[i].id = StyleId}

RemoveAt(h, i) == SubSeq(h, 1, i - 1) \o SubSeq(h, i + 1, Len(h))

\* an applicator that never removes the element it finds
RemoveExistingNever(h) == h

\* existingStyle.remove(): getElementById returns the first match in document order
RemoveExisting(h) ==
    IF Overrides(h) = {} THEN h
    ELSE RemoveAt(h, CHOOSE i \in Overrides(h) : \A j \in Overrides(h) : i <= j)

\* if (css.trim()) { createElement; id; textContent; appendChild }
InstallNew(h, css) ==
    IF Trim(css.s) # <<>> THEN Append(h, [id |-> StyleId, text |-> css]) ELSE h

updateCustomCSS(h, css) == InstallNew(RemoveExisting(h), css)

\* if (designSettings.custom_css) updateCustomCSS(designSettings.custom_css)
ApplySavedCss(h, s) ==
    IF Truthy(Get(s, CSS)) THEN updateCustomCSS(h, Get(s, CSS)) ELSE h

----------------------------------------------------------------------------
(* handleImageUpload *)

IsImage(f) == StartsWith(f.type, <<"image/">>)
\* a size check that also turns away a file of exactly the limit
TooLargeAtLimit(f) == f.size >= MaxFileSize

TooLarge(f) == f.size > MaxFileSize
ValidFile(f) == IsImage(f) /\ ~TooLarge(f)

\* file.name.split('.').pop()
FileExt(f) == f.name[Len(f.name)]

\* `design/hero-image-${Date.now()}.${fileExt}`
FilePath(f, now) == <<"design/", "hero-image-", ToString(now), ".", FileExt(f)>>

\* supabase.storage.from('user-avatars').getPublicUrl(filePath)
PublicUrl(path) == Str(<<"https://storage/", "user-avatars/">> \o path)

----------------------------------------------------------------------------
(* The session *)

NoToasts == [load |-> <<>>, save |-> <<>>, upload |-> <<>>, reset |-> <<>>]
NoCalls == [upload |-> 0, getPublicUrl |-> 0]

\* the state a mounted component starts in, its fetch already issued
Mounted ==
    /\ designSettings = EmptyObj
    /\ isLoading = FALSE
    /\ uploading = FALSE
    /\ loadPc = "fetching"
    /\ savePc = "idle"
    /\ saveS = EmptyObj
    /\ issued = <<>>
    /\ upPc = "idle"
    /\ upPath = <<>>
    /\ blobCalls = NoCalls
    /\ toasts = NoToasts
    /\ last = [op |-> "mount"]

Init ==
    /\ Mounted
    /\ store \in InitStores
    /\ head = <<>>
    /\ steps = 0

UserStep(op) ==
    /\ steps < MaxSteps
    /\ steps' = steps + 1
    /\ last' = op

\* The component is mounted again once the previous instance is at rest; a
\* page reload also empties the document, a remount by navigation does not.
\* The upserts of the last save stay on record: they describe the table.
Mount(reload) ==
    /\ loadPc # "fetching" /\ savePc = "idle" /\ upPc = "idle"
    /\ UserStep([op |-> "mount"])
    /\ designSettings' = EmptyObj
    /\ isLoading' = FALSE
    /\ uploading' = FALSE
    /\ loadPc' = "fetching"
    /\ blobCalls' = NoCalls
    /\ toasts' = NoToasts
    /\ head' = IF reload THEN <<>> ELSE head
    /\ UNCHANGED <<store, savePc, saveS, issued, upPc, upPath>>

\* the select resolves without error: merge the rows and set the state
FetchOk(order) ==
    /\ loadPc = "fetching"
    /\ designSettings' = LoadMerge(Rows(store, order))
    /\ loadPc' = "done"
    /\ UNCHANGED <<isLoading, uploading, store, head, savePc, saveS, issued,
                   upPc, upPath, blobCalls, toasts, steps, last>>

\* the select resolves with an error: caught, logged, reported
FetchError ==
    /\ loadPc = "fetching"
    /\ loadPc' = "failed"
    /\ toasts' = [toasts EXCEPT !.load = <<"Error">>]
    /\ UNCHANGED <<designSettings, isLoading, uploading, store, head, savePc,
                   saveS, issued, upPc, upPath, blobCalls, steps, last>>

FetchReturn ==
    \/ \E order \in Orders(DOMAIN store) : FetchOk(order)
    \/ FetchError

\* onChange of an input: setDesignSettings(prev => ({ ...prev, [k]: value }))
EditField(k, v) ==
    /\ UserStep([op |-> "edit"])
    /\ designSettings' = With(designSettings, k, v)
    /\ UNCHANGED <<isLoading, uploading, store, head, loadPc, savePc, saveS,
                   issued, upPc, upPath, blobCalls, toasts>>

ResetToDefaults ==
    /\ UserStep([op |-> "reset"])
    /\ designSettings' = Defaults
    /\ toasts' = [toasts EXCEPT !.reset = <<"Settings Reset">>]
    /\ UNCHANGED <<isLoading, uploading, store, head, loadPc, savePc, saveS,
                   issued, upPc, upPath, blobCalls>>

\* onChange of the file input without a file: if (!file) return
SelectNoFile ==
    /\ ~uploading
    /\ UserStep([op |-> "nofile"])
    /\ UNCHANGED <<designSettings, isLoading, uploading, store, head, loadPc,
                   savePc, saveS, issued, upPc, upPath, blobCalls, toasts>>

\* the verdict of the two validations, in the order the handler makes them
Rejection(f) ==
    IF ~IsImage(f) THEN "Invalid File"
    ELSE IF TooLarge(f) THEN "File Too Large"
    ELSE "none"

\* onChange of the file input (disabled while uploading) with file f
HandleImageUpload(f, now) ==
    /\ ~uploading
    /\ UserStep([op |-> "upload", file |-> f])
    /\ IF Rejection(f) # "none"
       THEN /\ toasts' = [toasts EXCEPT !.upload = <<Rejection(f)>>]
            /\ UNCHANGED <<uploading, upPc, upPath, blobCalls>>
       ELSE /\ uploading' = TRUE
            /\ upPath' = FilePath(f, now)
            /\ upPc' = "uploading"
            /\ blobCalls' = [blobCalls EXCEPT !.upload = @ + 1]
            /\ toasts' = [toasts EXCEPT !.upload = <<>>]
    /\ UNCHANGED <<designSettings, isLoading, store, head, loadPc, savePc,
                   saveS, issued>>

\* an updater that forgets the spread of the previous state
HeroAlone(prev, url) == With(EmptyObj, HERO, url)

\* prev => ({ ...prev, hero_image_url: publicUrl })
HeroUpdate(prev, url) == With(prev, HERO, url)

\* storage.upload resolves; on success the public URL becomes the hero image
UploadReturn(ok) ==
    /\ upPc = "uploading"
    /\ IF ok
       THEN /\ blobCalls' = [blobCalls EXCEPT !.getPublicUrl = @ + 1]
            /\ designSettings' = HeroUpdate(designSettings, PublicUrl(upPath))
            /\ toasts' = [toasts EXCEPT !.upload = <<"Image Uploaded">>]
       ELSE /\ toasts' = [toasts EXCEPT !.upload = <<"Upload Failed">>]
            /\ UNCHANGED <<designSettings, blobCalls>>
    /\ uploading' = FALSE
    /\ upPc' = "idle"
    /\ upPath' = <<>>
    /\ UNCHANGED <<isLoading, store, head, loadPc, savePc, saveS, issued,
                   steps, last>>

Request(key, value) == [key |-> key, value |-> value, status |-> "pending"]
Settle(log, status) == [log EXCEPT ![Len(log)].status = status]

\* a continuation that reads the state as it is when the await resumes
LatestSettings == designSettings

\* designSettings as the lines after the first await read it: the constant
\* of the render whose handler was clicked
ClosureSettings == saveS

\* click on Save All (disabled while isLoading): up to the first await
SaveStart ==
    /\ ~isLoading
    /\ UserStep([op |-> "save"])
    /\ isLoading' = TRUE
    /\ saveS' = designSettings
    /\ issued' = <<Request(DESIGN, DesignData(designSettings))>>
    /\ savePc' = "awaitDesign"
    /\ toasts' = [toasts EXCEPT !.save = <<>>]
    /\ UNCHANGED <<designSettings, uploading, store, head, loadPc, upPc,
                   upPath, blobCalls>>

\* a failure path that goes on to report success as well
SaveFailedThenCheers ==
    /\ issued' = Settle(issued, "error")
    /\ toasts' = [toasts EXCEPT !.save = <<"Error", "Settings Saved">>]
    /\ isLoading' = FALSE
    /\ savePc' = "idle"
    /\ UNCHANGED <<store, head>>

\* a failure path without the finally block
SaveFailedStaysBusy ==
    /\ issued' = Settle(issued, "error")
    /\ toasts' = [toasts EXCEPT !.save = <<"Error">>]
    /\ savePc' = "idle"
    /\ UNCHANGED <<store, head, isLoading>>

\* the catch and finally blocks
SaveFailed ==
    /\ issued' = Settle(issued, "error")
    /\ toasts' = [toasts EXCEPT !.save = <<"Error">>]
    /\ isLoading' = FALSE
    /\ savePc' = "idle"
    /\ UNCHANGED <<store, head>>

\* lines 166-174 and the finally block, the table being st by then
SaveSucceeded(st) ==
    /\ store' = st
    /\ issued' = Settle(issued, "ok")
    /\ head' = ApplySavedCss(head, ClosureSettings)
    /\ toasts' = [toasts EXCEPT !.save = <<"Settings Saved">>]
    /\ isLoading' = FALSE
    /\ savePc' = "idle"

\* the design_settings upsert resolves
DesignUpsertReturn(ok) ==
    /\ savePc = "awaitDesign"
    /\ IF ~ok THEN SaveFailed
       ELSE IF NeedsGeneral(ClosureSettings)
       THEN /\ store' = Upsert(store, DESIGN, issued[1].value)
            /\ issued' = Append(Settle(issued, "ok"), Request(GENERAL, GeneralData(ClosureSettings)))
            /\ savePc' = "awaitGeneral"
            /\ UNCHANGED <<head, toasts, isLoading>>
       ELSE SaveSucceeded(Upsert(store, DESIGN, issued[1].value))
    /\ UNCHANGED <<designSettings, uploading, loadPc, saveS, upPc, upPath,
                   blobCalls, steps, last>>

\* the general_settings upsert resolves
GeneralUpsertReturn(ok) ==
    /\ savePc = "awaitGeneral"
    /\ IF ~ok THEN SaveFailed
       ELSE SaveSucceeded(Upsert(store, GENERAL, issued[2].value))
    /\ UNCHANGED <<designSettings, uploading, loadPc, saveS, upPc, upPath,
                   blobCalls, steps, last>>

Next ==
    \/ \E reload \in BOOLEAN : Mount(reload)
    \/ FetchReturn
    \/ \E k \in EditedFields : \E v \in EditValues(k) : EditField(k, v)
    \/ ResetToDefaults
    \/ SelectNoFile
    \/ \E f \in Files : \E now \in Times : HandleImageUpload(f, now)
    \/ \E ok \in BOOLEAN : UploadReturn(ok)
    \/ SaveStart
    \/ \E ok \in BOOLEAN : DesignUpsertReturn(ok)
    \/ \E ok \in BOOLEAN : GeneralUpsertReturn(ok)

Spec == Init /\ [][Next]_vars

\* every external call returns: the awaited promises resolve or reject
CallsReturn ==
    /\ WF_vars(FetchReturn)
    /\ WF_vars(\E ok \in BOOLEAN : UploadReturn(ok))
    /\ WF_vars(\E ok \in BOOLEAN : DesignUpsertReturn(ok))
    /\ WF_vars(\E ok \in BOOLEAN : GeneralUpsertReturn(ok))

InitLive ==
    /\ Mounted
    /\ store = [k \in SettingKeys |-> IF k = DESIGN THEN PlainDesign ELSE FullGeneral]
    /\ head = <<>>
    /\ steps = 0

FairSpec == InitLive /\ [][Next]_vars /\ CallsReturn

----------------------------------------------------------------------------
(* updateCustomCSS on its own: any text, applied to any document the program
   can have left behind *)

\* texts updateCustomCSS may be given
CssTexts ==
    { EmptyStr, Str(<<" ">>), Str(<<"\n", " ">>), Str(<<"body{color:red}">>),
      Str(<<"body{color:red}", " ">>),
      Str(<<" ", "p{}", "\n">>), Str(<<"a{}", " ", "b{}">>), Str(<<"old{}">>) }

Foreign1 == [id |-> "theme", text |-> Str(<<"h1{}">>)]
Foreign2 == [id |-> "", text |-> Str(<<"h2{}">>)]
OldOverride == [id |-> StyleId, text |-> Str(<<"old{}">>)]

InsertAt(h, i, e) == SubSeq(h, 1, i - 1) \o <<e>> \o SubSeq(h, i, Len(h))

\* style elements other code put into the head, without and with an
\* override installed among them earlier
ForeignHeads == {<<>>, <<Foreign1>>, <<Foreign2>>, <<Foreign1, Foreign2>>}
InitHeads ==
    ForeignHeads
    \cup UNION {{InsertAt(h, i, OldOverride) : i \in 1..(Len(h) + 1)} : h \in ForeignHeads}

InitCSS ==
    /\ Mounted
    /\ store = EmptyObj
    /\ head \in InitHeads
    /\ steps = 0

CallUpdateCustomCSS(x) ==
    /\ UserStep([op |-> "updateCustomCSS", css |-> x])
    /\ head' = updateCustomCSS(head, x)
    /\ UNCHANGED <<designSettings, isLoading, uploading, store, loadPc, savePc,
                   saveS, issued, upPc, upPath, blobCalls, toasts>>

NextCSS == \E x \in CssTexts : CallUpdateCustomCSS(x)

SpecCSS == InitCSS /\ [][NextCSS]_vars

----------------------------------------------------------------------------
(* Vocabulary of the properties, stated without the operators of the code *)

GeneralKeys == {SN, WM}

\* empty or absent, as a reader of the form sees it
Blank(v) == v = Undefined \/ v = EmptyStr
Populated(v) == ~Blank(v)

\* the last user action was a mount and its fetch has resolved without error
PostLoad == last.op = "mount" /\ loadPc = "done"

\* the last save has run to its end with every upsert it issued successful
SavedAll ==
    /\ savePc = "idle"
    /\ issued # <<>>
    /\ \A i \in DOMAIN issued : issued[i].status = "ok"

DocOf(st, key) == IF key \in DOMAIN st THEN st[key] ELSE EmptyObj

----------------------------------------------------------------------------
(* C1 *)

\* C1: partition on save.  Every upsert a save issues under design_settings
\* carries neither server_name nor welcome_message and carries every other
\* field of the saved settings with its value; every upsert it issues under
\* general_settings has no key but these two, each with the value the saved
\* settings have for it; no key is written to both documents.
C1_PartitionOnSave ==
    \A i \in DOMAIN issued :
        LET u == issued[i] IN
        /\ u.key \in SettingKeys
        /\ u.key = DESIGN =>
              /\ DOMAIN u.value = DOMAIN saveS \ GeneralKeys
              /\ \A k \in DOMAIN u.value : u.value[k] = saveS[k]
        /\ u.key = GENERAL =>
              /\ DOMAIN u.value \subseteq GeneralKeys
              /\ \A k \in DOMAIN u.value : u.value[k] = Get(saveS, k)
        /\ \A j \in DOMAIN issued :
              issued[j].key # u.key => DOMAIN issued[j].value \cap DOMAIN u.value = {}

\* a save of settings holding design fields and both general fields has
\* issued both upserts
C1_Witness ==
    /\ Len(issued) = 2
    /\ issued[1].key = DESIGN /\ issued[2].key = GENERAL
    /\ {PRIMARY, CSS, SN, WM} \subseteq DOMAIN saveS
    /\ PRIMARY \in DOMAIN issued[1].value

----------------------------------------------------------------------------
(* C2 *)

\* C2: round trip.  When a save of settings s has ended with all its upserts
\* successful and the component is then mounted and its fetch succeeds, the
\* loaded settings have, for every field of the interface that s populates,
\* the value s has.
C2_RoundTrip ==
    (PostLoad /\ SavedAll) =>
        \A k \in Fields :
            Populated(Get(saveS, k)) => Get(designSettings, k) = Get(saveS, k)

\* a load after a save that populated a design field and both general fields
C2_Witness ==
    /\ PostLoad /\ SavedAll
    /\ Populated(Get(saveS, PRIMARY))
    /\ Populated(Get(saveS, SN))
    /\ Populated(Get(saveS, WM))

----------------------------------------------------------------------------
(* C3 *)

BothBlank(s) == Blank(Get(s, SN)) /\ Blank(Get(s, WM))

\* the upserts a save has issued, by key
IssuedKeys == [i \in DOMAIN issued |-> issued[i].key]

C3_Issued ==
    /\ (issued # <<>> /\ BothBlank(saveS)) => IssuedKeys = <<DESIGN>>
    /\ (issued # <<>> /\ ~BothBlank(saveS)) =>
          /\ issued[1].key = DESIGN
          /\ issued[1].status = "pending" => IssuedKeys = <<DESIGN>>
          /\ issued[1].status = "error" => IssuedKeys = <<DESIGN>>
          /\ issued[1].status = "ok" => IssuedKeys = <<DESIGN, GENERAL>>

\* a step of a save whose settings have both general fields blank
C3_GeneralUntouched ==
    (savePc # "idle" /\ BothBlank(saveS)) =>
        /\ (GENERAL \in DOMAIN store') = (GENERAL \in DOMAIN store)
        /\ DocOf(store', GENERAL) = DocOf(store, GENERAL)

\* C3: conditional general write.  A save of settings whose server_name and
\* welcome_message are both empty or absent issues the design_settings upsert
\* and no other, and no step of it changes the stored general_settings
\* document; a save of settings with one of the two non-empty issues the
\* general_settings upsert once the design_settings upsert has succeeded, and
\* not before.
C3_ConditionalGeneralWrite == [](C3_Issued) /\ [][C3_GeneralUntouched]_vars

\* a save with both general fields blank has succeeded while the table still
\* holds the general_settings document it held before
C3_Witness ==
    /\ SavedAll
    /\ BothBlank(saveS)
    /\ IssuedKeys = <<DESIGN>>
    /\ GENERAL \in DOMAIN store
    /\ Populated(Get(store[GENERAL], SN))

----------------------------------------------------------------------------
(* C4 *)

\* the style elements of a head that carry the fixed identifier
ActiveOverrides(h) == {i \in DOMAIN h : h[i].id = "custom-design-css"}
OverrideTexts(h) == {h[i].text : i \in ActiveOverrides(h)}

\* a text with something left once its whitespace is trimmed away
NonBlankText(v) == v.t = "string" /\ \E i \in DOMAIN v.s : v.s[i] \notin {" ", "\n"}

\* what the claims expect the overrides to be after apply(v)
ExpectedOverrides(v) == IF NonBlankText(v) THEN {v} ELSE {}

\* C4: single style override.  The head never holds more than one element
\* with the identifier custom-design-css; after updateCustomCSS(x) it holds
\* exactly one, with x as its text, when x is non-blank, and none when x is
\* empty or whitespace only, whatever the head held before.
C4_SingleOverride ==
    /\ Cardinality(ActiveOverrides(head)) <= 1
    /\ last.op = "updateCustomCSS" =>
          /\ Cardinality(ActiveOverrides(head)) = Cardinality(ExpectedOverrides(last.css))
          /\ OverrideTexts(head) = ExpectedOverrides(last.css)

\* a whitespace-only text was applied after an earlier call and no override
\* is left beside the foreign elements
C4_Witness ==
    /\ last.op = "updateCustomCSS"
    /\ steps >= 2
    /\ last.css = Str(<<"\n", " ">>)
    /\ head = <<Foreign1, Foreign2>>

----------------------------------------------------------------------------
(* C5 *)

\* a save has succeeded and no user action has followed its click
SaveDone == last.op = "save" /\ SavedAll

\* C5: style follows save.  After a save whose upserts all succeeded the
\* overrides in the head are what apply(s.custom_css) leaves for the saved
\* settings s: the text itself when it is non-blank, none otherwise.
C5_StyleFollowsSave ==
    SaveDone => OverrideTexts(head) = ExpectedOverrides(Get(saveS, CSS))

----------------------------------------------------------------------------
(* C6 *)

\* the reference merge: the pairs of the design document, with server_name
\* and welcome_message read from the general document when one is returned
Reference(st, k) ==
    IF k \in GeneralKeys /\ GENERAL \in DOMAIN st
    THEN Get(st[GENERAL], k)
    ELSE Get(DocOf(st, DESIGN), k)

AllKeys == Fields \cup {"extra_field"}

\* C6: load merge against a reference.  After a successful fetch the settings
\* read, for every key, as the design document does, except that server_name
\* and welcome_message read as the general document does when it is returned;
\* no other key of the general document shows, nothing shows when neither
\* document exists, and no error is notified.
C6_LoadMatchesReference ==
    PostLoad =>
        /\ \A k \in AllKeys \cup DOMAIN designSettings :
              Get(designSettings, k) = Reference(store, k)
        /\ DOMAIN store = {} => designSettings = EmptyObj
        /\ toasts.load = <<>>

----------------------------------------------------------------------------
(* C7 *)

\* C7: load is independent of arrival order.  After a successful fetch the
\* settings are what the merge yields for every order of the returned rows,
\* and server_name and welcome_message are those of the general document.
C7_LoadOrderIndependent ==
    PostLoad =>
        /\ \A order \in Orders(DOMAIN store) :
              designSettings = LoadMerge(Rows(store, order))
        /\ GENERAL \in DOMAIN store =>
              \A k \in GeneralKeys : Get(designSettings, k) = Get(store[GENERAL], k)

----------------------------------------------------------------------------
(* C8 *)

\* the file the claim calls invalid, read off its type and size directly
NotAnImage(f) == f.type = <<>> \/ f.type[1] # "image/"
OverLimit(f) == f.size > 5 * 1024 * 1024

\* a step in which the user selected a file
UploadEvent == steps' # steps /\ last'.op = "upload"

C8_Step ==
    UploadEvent =>
        LET f == last'.file IN
        /\ (NotAnImage(f) \/ OverLimit(f)) =>
              /\ blobCalls' = blobCalls
              /\ uploading' = FALSE /\ uploading = FALSE
              /\ upPc' = "idle"
              /\ designSettings' = designSettings
              /\ toasts'.upload \in {<<"Invalid File">>, <<"File Too Large">>}
        /\ (~NotAnImage(f) /\ f.size = 5 * 1024 * 1024) =>
              /\ uploading' = TRUE
              /\ blobCalls'.upload = blobCalls.upload + 1
              /\ toasts'.upload = <<>>

C8_State ==
    (last.op = "upload" /\ (NotAnImage(last.file) \/ OverLimit(last.file))) =>
        /\ ~uploading
        /\ upPc = "idle"

\* C8: upload validation precedes any store call.  Selecting a file whose
\* type does not start with image/ or whose size exceeds 5*1024*1024 bytes
\* invokes neither upload nor getPublicUrl, leaves the uploading flag unset
\* and the settings unchanged and emits one error notification; selecting an
\* image of exactly 5*1024*1024 bytes starts the upload.
C8_ValidationFirst == []C8_State /\ [][C8_Step]_vars

\* an image one byte over the limit was selected and turned away before the
\* blob store was called
C8_Witness ==
    /\ last.op = "upload"
    /\ ~NotAnImage(last.file) /\ last.file.size = 5 * 1024 * 1024 + 1
    /\ toasts.upload = <<"File Too Large">>
    /\ blobCalls = NoCalls
    /\ ~uploading

----------------------------------------------------------------------------
(* C9 *)

DesignFailStep ==
    savePc = "awaitDesign" /\ savePc' = "idle" /\ issued'[1].status = "error"

DesignOkStep == savePc = "awaitDesign" /\ savePc' = "awaitGeneral"

GeneralFailStep ==
    savePc = "awaitGeneral" /\ savePc' = "idle" /\ issued'[2].status = "error"

\* the table holds, under key, the document v was sent as
Stored(st, key, v) ==
    /\ key \in DOMAIN st
    /\ DOMAIN st[key] \subseteq DOMAIN v
    /\ \A k \in DOMAIN v : Get(st[key], k) = v[k]

C9_Step ==
    /\ DesignFailStep =>
          /\ Len(issued') = 1
          /\ store' = store
          /\ head' = head
          /\ designSettings' = designSettings
          /\ toasts'.save = <<"Error">>
    /\ DesignOkStep =>
          /\ Stored(store', DESIGN, issued[1].value)
          /\ (GENERAL \in DOMAIN store') = (GENERAL \in DOMAIN store)
          /\ DocOf(store', GENERAL) = DocOf(store, GENERAL)
          /\ head' = head
    /\ GeneralFailStep =>
          /\ store' = store
          /\ Stored(store', DESIGN, issued[1].value)
          /\ head' = head
          /\ designSettings' = designSettings
          /\ toasts'.save = <<"Error">>

\* C9: a failed save is neither rolled back nor reported as success.  When
\* the design_settings upsert errors, no general_settings upsert is issued
\* and table and head stay as they are; when the general_settings upsert
\* errors, the table keeps the new design_settings document and the
\* general_settings document it had and the head stays as it is; each time
\* the only notification of the save is one error and the settings in memory
\* stay as they are.
C9_FailedSave == [][C9_Step]_vars

\* the second upsert of a save failed after the first had replaced the
\* design document: the table is split
C9_Witness ==
    /\ savePc = "idle"
    /\ Len(issued) = 2
    /\ issued[1].status = "ok" /\ issued[2].status = "error"
    /\ Stored(store, DESIGN, issued[1].value)
    /\ \E k \in GeneralKeys : Get(DocOf(store, GENERAL), k) # Get(saveS, k)
    /\ toasts.save = <<"Error">>

----------------------------------------------------------------------------
(* C10 *)

\* the controls that start a save and an upload respond
CanSave == ENABLED SaveStart
CanUpload == ENABLED (\E f \in Files : \E now \in Times : HandleImageUpload(f, now))

C10_Restartable ==
    /\ savePc = "idle" => ~isLoading
    /\ upPc = "idle" => ~uploading
    /\ (steps < MaxSteps /\ savePc = "idle") => CanSave
    /\ (steps < MaxSteps /\ upPc = "idle") => CanUpload

\* C10: the session recovers from every outcome.  If every external call
\* returns, a save that has set isLoading sets it back to false and an upload
\* that has set uploading sets it back to false, whether the calls succeed or
\* fail; once a save or an upload has ended, the next can be started.
C10_Recovers ==
    /\ isLoading ~> ~isLoading
    /\ uploading ~> ~uploading
    /\ []C10_Restartable

\* load, save and upload have all failed and both flags are back to false
C10_Witness ==
    /\ loadPc = "failed"
    /\ savePc = "idle" /\ toasts.save = <<"Error">> /\ ~isLoading
    /\ upPc = "idle" /\ toasts.upload = <<"Upload Failed">> /\ ~uploading

----------------------------------------------------------------------------
(* C11 *)

\* the design_settings upsert of the running save resolves without error
DesignResolvedOk ==
    savePc = "awaitDesign" /\ savePc' # "awaitDesign" /\ issued'[1].status = "ok"

\* the running save ends in success
SaveEndsOk ==
    savePc # "idle" /\ savePc' = "idle" /\ issued'[Len(issued')].status = "ok"

\* the settings the design_settings upsert in flight was computed from are
\* the snapshot on record: the upsert carries every design field of it
SnapshotSent ==
    issued # <<>> =>
        /\ DOMAIN issued[1].value = DOMAIN saveS \ GeneralKeys
        /\ \A k \in DOMAIN issued[1].value : issued[1].value[k] = saveS[k]

C11_Step ==
    /\ savePc # "idle" => (saveS' = saveS /\ issued'[1].value = issued[1].value)
    /\ DesignResolvedOk =>
          /\ (savePc' = "awaitGeneral") = ~BothBlank(saveS)
          /\ savePc' = "awaitGeneral" =>
                /\ Len(issued') = 2
                /\ issued'[2].key = GENERAL
                /\ DOMAIN issued'[2].value = GeneralKeys
                /\ \A k \in GeneralKeys : issued'[2].value[k] = Get(saveS, k)
    /\ SaveEndsOk =>
          IF Blank(Get(saveS, CSS))
          THEN head' = head
          ELSE OverrideTexts(head') = ExpectedOverrides(Get(saveS, CSS))

\* C11: one save writes one snapshot.  Whatever edits, resets and upload
\* completions change the settings in memory while a save waits for an
\* upsert, the decision to issue the general_settings upsert, its value and
\* the custom CSS the save applies are those of the settings the
\* design_settings upsert was computed from.
C11_OneSnapshot == []SnapshotSent /\ [][C11_Step]_vars

\* the general_settings upsert is out with the server name of the snapshot
\* while the settings in memory, edited since the click, have another
C11_Witness ==
    /\ savePc = "awaitGeneral"
    /\ last.op = "edit"
    /\ Populated(Get(saveS, SN))
    /\ Get(designSettings, SN) # Get(saveS, SN)
    /\ Get(designSettings, CSS) # Get(saveS, CSS)
    /\ issued[2].value[SN] = Get(saveS, SN)

----------------------------------------------------------------------------
(* C12 *)

\* the upload in flight resolves
UploadEnds == upPc = "uploading" /\ upPc' = "idle"

\* the URL the blob store returns for the path that was uploaded
ReturnedUrl == [t |-> "string", s |-> <<"https://storage/", "user-avatars/">> \o upPath]

C12_Step ==
    UploadEnds =>
        /\ store' = store
        /\ issued' = issued
        /\ savePc' = savePc
        /\ IF toasts'.upload = <<"Image Uploaded">>
           THEN /\ DOMAIN designSettings' = DOMAIN designSettings \cup {HERO}
                /\ designSettings'[HERO] = ReturnedUrl
                /\ \A k \in DOMAIN designSettings \ {HERO} :
                      designSettings'[k] = designSettings[k]
           ELSE /\ toasts'.upload = <<"Upload Failed">>
                /\ designSettings' = designSettings

\* C12: upload completion touches only the hero image.  When an upload
\* succeeds, the settings in memory become the settings current at that
\* moment with hero_image_url replaced by the returned public URL and every
\* other field as it is; when it fails they stay as they are; neither
\* outcome issues an upsert or writes the table.
C12_OnlyHeroImage == [][C12_Step]_vars

\* a reset made while the upload was outstanding survives the completion:
\* the settings are the defaults, which carry no hero image, plus the URL
C12_Witness ==
    /\ last.op = "reset"
    /\ toasts.upload = <<"Image Uploaded">>
    /\ HERO \in DOMAIN designSettings
    /\ \A k \in DOMAIN Defaults : Get(designSettings, k) = Defaults[k]

====
